---- MODULE Spec2Model ----
(***************************************************************************)
(* A model of the Echo virtual-agent backend: the event loop engine        *)
(* (event_loop_tool.py), the agent_event_chains / dialogs store            *)
(* (database.py), the event tree generator (Event_builder.py) and the      *)
(* daily loop engine (daily_loop_tool.py, Api.py).                         *)
(*                                                                         *)
(* TLA+ strings are ASCII, so the source's Chinese literals are written    *)
(* as follows:                                                             *)
(*   "in_progress" = 进行中      "success" = 成功      "failure" = 失败    *)
(*   "ended_status" = 已结束     "unfinished" = 未完成                     *)
(*   "event_end" = 事件结束 (the fragment searched for in a reply)         *)
(*   stage_name = the key 阶段,  event_list = the key 事件列表             *)
(*   "idle" = 空闲               "busy" = 忙碌                             *)
(*   "tuichu" = 退出             "jieshu" = 结束 (two of the exit phrases) *)
(*   "no_reply_yet" = （暂时无法回复）                                     *)
(*   "fairly_busy" = 一般忙碌                                              *)
(***************************************************************************)
EXTENDS Integers, Sequences, FiniteSets, TLC

VARIABLES
    chain,        \* agent_event_chains: the agent's row (present, event_tree)
    dialogs,      \* dialogs: session_id -> row of an event session
    call,         \* run_event_loop: one record per call in progress
    ended_done,   \* session ids on which a call has returned is_ended = true
    ncalls,       \* number of run_event_loop calls started so far
    gen,          \* the EventTreeGenerator instance: full_event_tree, last_event_id
    gen_log,      \* what the last generator call did
    codec,        \* a session state taken through save, load and save again
    daily_store,  \* agents, agent_schedules, the daily rows of dialogs, agent_messages
    daily,        \* run_daily_loop: one record per call in progress
    daily_client, \* the caller of the daily loop, and what its calls have done
    events_poll   \* global_event_counter, and the last poll of /api/v1/events

\* what the event loop engine leaves alone, and what the generator does
non_event_vars == <<gen, gen_log, codec, daily_store, daily, daily_client, events_poll>>
non_gen_vars ==
    <<dialogs, call, ended_done, ncalls, codec, daily_store, daily, daily_client,
      events_poll>>
non_codec_vars ==
    <<chain, dialogs, call, ended_done, ncalls, gen, gen_log, daily_store, daily, daily_client,
      events_poll>>
non_daily_vars == <<dialogs, call, ended_done, ncalls, gen, gen_log, codec, events_poll>>
non_poll_vars ==
    <<chain, dialogs, call, ended_done, ncalls, gen, gen_log, codec,
      daily_store, daily, daily_client>>

vars ==
    <<chain, dialogs, call, ended_done, ncalls, gen, gen_log, codec,
      daily_store, daily, daily_client, events_poll>>

-----------------------------------------------------------------------------
(* Bounds *)

MaxCalls == 3
MaxSessions == 2
MaxStages == 2
MaxEvents == 2
MaxDailyCalls == 2
MaxGlobalEvents == 3
MaxLimit == 2

Procs == {"p1", "p2"}
SessionIds == 1..MaxSessions

-----------------------------------------------------------------------------
(* Event trees *)

\* no row of agent_event_chains for the agent
NoChain == [present |-> FALSE, event_tree |-> <<>>]

NoKey == "<absent>"
None == "<None>"

Event(id, st) == [event_id |-> id, status |-> st]

Stage(name, evs) == [stage_name |-> name, event_list |-> evs]

\* a tree as the generator stores it: two stages with distinct names
TreeDistinct ==
    << Stage("S1", <<Event("E001", "unfinished"), Event("E002", "unfinished")>>),
       Stage("S2", <<Event("E003", "unfinished")>>) >>

\* a tree whose stage names, copied from the LLM's replies, coincide
TreeSameName ==
    << Stage("S1", <<Event("E001", "unfinished")>>),
       Stage("S1", <<Event("E002", "unfinished"), Event("E003", "unfinished")>>) >>

StoredTrees == {TreeDistinct, TreeSameName}

\* stage.get("阶段", f"阶段{i+1}")
StageNameOf(tree, i) ==
    IF tree[i].stage_name = NoKey THEN "stage" \o ToString(i) ELSE tree[i].stage_name

\* the positions <<stage, index>> of a tree, in document order
Positions(tree) ==
    UNION {{<<s, e>> : e \in 1..Len(tree[s].event_list)} : s \in 1..Len(tree)}

Before(p, q) == p[1] < q[1] \/ (p[1] = q[1] /\ p[2] <= q[2])

\* the nested for loops that stop at the first event with this id;
\* <<0, 0>> when no event has it
FindEvent(tree, id) ==
    LET hits == {p \in Positions(tree) : tree[p[1]].event_list[p[2]].event_id = id}
    IN  IF hits = {} THEN <<0, 0>>
        ELSE CHOOSE p \in hits : \A q \in hits : Before(p, q)

HasEvent(tree, id) == FindEvent(tree, id) # <<0, 0>>

get_intro_event(tree) ==
    IF HasEvent(tree, "E001") THEN "E001" ELSE None

\* a variant that writes the document back unchanged
SetStatus_unchanged(tree, id, st) ==
    tree

\* event["status"] = status on the first event with this id
SetStatus(tree, id, st) ==
    LET p == FindEvent(tree, id)
    IN  [tree EXCEPT ![p[1]].event_list[p[2]].status = st]

StatusOf(tree, id) ==
    LET p == FindEvent(tree, id)
    IN  tree[p[1]].event_list[p[2]].status

\* the list event_details the selector prompt is built from
RECURSIVE event_details(_, _)
event_details(tree, i) ==
    IF i > Len(tree) THEN <<>>
    ELSE [j \in 1..Len(tree[i].event_list) |->
            [stage |-> StageNameOf(tree, i),
             event_index |-> j - 1,
             event_id |-> tree[i].event_list[j].event_id]]
         \o event_details(tree, i + 1)

-----------------------------------------------------------------------------
(* LLM replies *)

\* a reply text is modelled by the set of searched fragments it contains
Fragments == {"event_end", "success", "failure"}
Replies == SUBSET Fragments
LLMError == {"<exception>"}

Contains(reply, fragment) == fragment \in reply

\* the success marker and the failure marker of the system prompt
SuccessMarker == {"event_end", "success"}
FailureMarker == {"event_end", "failure"}

\* a variant that looks for the failure fragment first
ClassifyStatus_failure_first(reply) ==
    IF Contains(reply, "event_end")
    THEN IF Contains(reply, "failure") THEN "failure"
         ELSE IF Contains(reply, "success") THEN "success"
         ELSE "in_progress"
    ELSE "in_progress"

\* if "事件结束" in agent_reply: ... if "成功" ... elif "失败" ...
ClassifyStatus(reply) ==
    IF Contains(reply, "event_end")
    THEN IF Contains(reply, "success") THEN "success"
         ELSE IF Contains(reply, "failure") THEN "failure"
         ELSE "in_progress"
    ELSE "in_progress"

ClassifyEnded(reply) == Contains(reply, "event_end")

\* the selector's reply text; int(content) parses the decimal ones
SelectorTexts == {"-1", "0", "1", "2", "3", "none"}

ParseInt(text) ==
    IF \E i \in -1..9 : ToString(i) = text
    THEN CHOOSE i \in -1..9 : ToString(i) = text
    ELSE -2

Parseable(text) == \E i \in -1..9 : ToString(i) = text

\* get_next_event_from_chain after the reply arrived: the id of the event
\* returned, None when the function returns None
get_next_event_from_chain(tree, text) ==
    LET details == event_details(tree, 1)
        idx     == ParseInt(text)
    IN  IF tree = <<>> \/ text = "<exception>" \/ ~Parseable(text) THEN None
        ELSE IF ~(0 <= idx /\ idx < Len(details)) THEN None
        ELSE LET info   == details[idx + 1]
                 stages == {i \in 1..Len(tree) : StageNameOf(tree, i) = info.stage}
             IN  IF stages = {} THEN None
                 ELSE LET t == CHOOSE i \in stages : \A k \in stages : i <= k
                      IN  IF info.event_index < Len(tree[t].event_list)
                          THEN tree[t].event_list[info.event_index + 1].event_id
                          ELSE None

-----------------------------------------------------------------------------
(* EventTreeGenerator *)

\* the 阶段 value of a generated stage is whatever the LLM's JSON carries
StageNames == {"S1", "S2"}

\* f"E{n:03d}"
FormatId(n) ==
    IF n < 10 THEN "E00" \o ToString(n)
    ELSE IF n < 100 THEN "E0" \o ToString(n)
    ELSE "E" \o ToString(n)

\* int(event_id[1:]); -1 when the text is not E followed by digits
ParseId(id) ==
    IF \E n \in 0..99 : FormatId(n) = id
    THEN CHOOSE n \in 0..99 : FormatId(n) = id
    ELSE -1

\* __init__: no tree, no lifecycle stages (stages = how many the instance holds)
NewGen == [full_event_tree |-> <<>>, last_event_id |-> "E000", stages |-> 0]

\* what a generator call did: whether it inserted a row, whether it changed
\* the stored document, whether it returned the stored tree, how many
\* generate_and_save calls have now followed one another, how many LLM
\* requests it made for the lifecycle stages and for the stage's events,
\* whether it returned [] and whether it changed full_event_tree
NoLog ==
    [op |-> "none", inserted |-> FALSE, changed |-> FALSE,
     returned_stored |-> FALSE, consecutive |-> 0,
     lifecycle_requests |-> 0, stage_requests |-> 0,
     returned_empty |-> FALSE, memory_changed |-> FALSE]

GenIdle ==
    /\ gen = NewGen
    /\ gen_log = NoLog

\* _get_next_event_id
get_next_event_id == FormatId(ParseId(gen.last_event_id) + 1)

\* _assign_event_ids: the events renumbered from last_num + 1 on
assign_event_ids(events, last_num) ==
    [j \in 1..Len(events) |-> [events[j] EXCEPT !.event_id = FormatId(last_num + j)]]

HasId(e) == e.event_id # NoKey

IsE001(e) == e.event_id = "E001"

\* the rows an UPDATE ... WHERE agent_id touches, then the INSERT when none
save_tree(tree) == [present |-> TRUE, event_tree |-> tree]

\* the event lists an LLM reply can carry: n entries numbered as the prompt
\* asks, from first on, any of them without an event_id key
StageReplies(first) ==
    UNION {{[j \in 1..n |->
                Event(IF j \in withId THEN FormatId(first + j - 1) ELSE NoKey,
                      "unfinished")] : withId \in SUBSET (1..n)} : n \in 1..MaxEvents}

\* generate_initial_event_only: every listed event becomes E001, the filter
\* keeps the events whose id is E001, and the one-stage tree is stored
initial_event_list(listed) ==
    LET stamped == [j \in 1..Len(listed) |-> [listed[j] EXCEPT !.event_id = "E001"]]
    IN  SelectSeq(stamped, IsE001)

\* generate_and_save with a stored row: the tree is loaded and returned
GenerateAndSaveLoad ==
    /\ chain.present
    /\ LET tree == chain.event_tree
           last == IF tree # <<>> /\ tree[Len(tree)].event_list # <<>>
                   THEN tree[Len(tree)].event_list[Len(tree[Len(tree)].event_list)].event_id
                   ELSE gen.last_event_id
       IN  /\ gen' = [gen EXCEPT !.full_event_tree = tree, !.last_event_id = last]
           /\ gen_log' = [NoLog EXCEPT
                          !.op = "generate_and_save",
                          !.returned_stored = tree = chain.event_tree,
                          !.consecutive = IF gen_log.op = "generate_and_save"
                                          THEN 2 ELSE 1]
    /\ UNCHANGED chain
    /\ UNCHANGED non_gen_vars

\* generate_and_save without a stored row: the initial event is generated
\* (ok = the LLM's JSON passed the structure check within the retries) and
\* _save_event_tree stores whatever tree the instance holds
GenerateAndSaveNew(ok, name, listed) ==
    /\ ~chain.present
    /\ LET initial == Stage(name, initial_event_list(listed))
           tree    == IF gen.full_event_tree # <<>> THEN gen.full_event_tree
                      ELSE IF ok THEN <<initial>> ELSE <<>>
           last    == IF gen.full_event_tree = <<>> /\ ok
                      THEN initial.event_list[1].event_id
                      ELSE gen.last_event_id
       IN  /\ gen' = [gen EXCEPT !.full_event_tree = tree, !.last_event_id = last]
           /\ chain' = save_tree(tree)
           /\ gen_log' = [NoLog EXCEPT
                          !.op = "generate_and_save", !.inserted = TRUE,
                          !.changed = TRUE, !.returned_stored = TRUE,
                          !.consecutive = IF gen_log.op = "generate_and_save"
                                          THEN 2 ELSE 1]
    /\ UNCHANGED non_gen_vars

stage_max_retries == 3

\* how many requests in a row the LLM can fail: fewer than the retries, as
\* many, more
Failures == 0..(stage_max_retries + 1)

\* the retry loop running one attempt past max_retries
stage_attempts_one_more(attempt, failures) ==
    IF failures > stage_max_retries
    THEN [requests |-> stage_max_retries + 1, valid |-> FALSE]
    ELSE [requests |-> failures + 1, valid |-> TRUE]

\* for attempt in range(max_retries): the first `failures` requests fail (the
\* LLM call raises, the reply holds no JSON, the JSON lists no event with
\* event_id and name, or numbering an event raises) and the next one yields
\* a valid stage
RECURSIVE stage_attempts(_, _)
stage_attempts(attempt, failures) ==
    IF ~(attempt < stage_max_retries) THEN [requests |-> attempt, valid |-> FALSE]
    ELSE IF attempt < failures THEN stage_attempts(attempt + 1, failures)
    ELSE [requests |-> attempt + 1, valid |-> TRUE]

\* generate_next_stage_events: the lifecycle stages are asked for when the
\* instance holds none (lifecycle = how many the LLM's reply yields, 0 when
\* it fails); nothing is generated without stages or past the last stage;
\* otherwise the stage's events are requested until a reply passes
\* validation: events without event_id are dropped, ids are assigned only if
\* one is missing, the stage is appended and the tree saved
GenerateNextStageEvents(lifecycle, failures, name, listed) ==
    /\ SelectSeq(listed, HasId) # <<>>
    /\ LET stages == IF gen.stages = 0 THEN lifecycle ELSE gen.stages
           current_stage_index == Len(gen.full_event_tree)
           r == IF stages = 0 \/ current_stage_index >= stages
                THEN [requests |-> 0, valid |-> FALSE]
                ELSE stage_attempts(0, failures)
           valid_events == SelectSeq(listed, HasId)
           needs_id_assignment == \E j \in 1..Len(valid_events) : ~HasId(valid_events[j])
           last_num == ParseId(gen.last_event_id)
           events == IF needs_id_assignment
                     THEN assign_event_ids(valid_events, last_num)
                     ELSE valid_events
           last == IF needs_id_assignment THEN FormatId(last_num + Len(events))
                   ELSE gen.last_event_id
           tree == IF r.valid THEN Append(gen.full_event_tree, Stage(name, events))
                   ELSE gen.full_event_tree
       IN  /\ gen' = [full_event_tree |-> tree,
                      last_event_id |-> IF r.valid THEN last ELSE gen.last_event_id,
                      stages |-> stages]
           /\ chain' = IF r.valid THEN save_tree(tree) ELSE chain
           /\ gen_log' = [NoLog EXCEPT
                  !.op = IF r.valid THEN "generate_next_stage_events" ELSE "failed_stage",
                  !.inserted = r.valid /\ ~chain.present,
                  !.changed = chain' # chain,
                  !.lifecycle_requests = IF gen.stages = 0 THEN 1 ELSE 0,
                  !.stage_requests = r.requests,
                  !.returned_empty = ~r.valid,
                  !.memory_changed = tree # gen.full_event_tree]
    /\ UNCHANGED non_gen_vars

\* a new EventTreeGenerator replaces the instance
NewGenerator ==
    /\ gen # NewGen
    /\ gen' = NewGen
    /\ UNCHANGED <<chain, gen_log>>
    /\ UNCHANGED non_gen_vars

-----------------------------------------------------------------------------
(* The dialogs table and the event-session codec *)

NoSessionData ==
    [current_event_id |-> None, event_tree |-> <<>>,
     dialog_history |-> <<>>, event_status |-> "in_progress"]

\* end_time is modelled by whether it is NULL
NoRow ==
    [present |-> FALSE, current_event_id |-> None, event_status |-> "in_progress",
     event_tree |-> <<>>, dialog_history |-> <<>>, end_time |-> FALSE]

Message(role, issue) == [role |-> role, issue_id |-> issue]

\* INSERT INTO dialogs ... of create_session
create_session(tree, initial_event_id) ==
    [present |-> TRUE, current_event_id |-> initial_event_id,
     event_status |-> "in_progress", event_tree |-> tree,
     dialog_history |-> <<>>, end_time |-> FALSE]

\* a variant that forgets end_time
load_session_is_ended_status_only(row) ==
    row.event_status = "ended_status"

\* is_ended as load_session computes it from the row
load_session_is_ended(row) ==
    row.event_status = "ended_status" \/ row.end_time

\* a variant that reads the history from a key the document does not have
load_session_no_history(row) ==
    [current_event_id |-> row.current_event_id,
     event_tree |-> row.event_tree,
     dialog_history |-> <<>>,
     event_status |-> row.event_status]

\* session_data as load_session builds it from the row
load_session(row) ==
    [current_event_id |-> row.current_event_id,
     event_tree |-> row.event_tree,
     dialog_history |-> row.dialog_history,
     event_status |-> row.event_status]

\* an update that stamps end_time whatever is_ended says
update_session_stamps_end(row, sd, is_ended) ==
    [row EXCEPT !.current_event_id = sd.current_event_id,
                !.event_status = sd.event_status,
                !.event_tree = sd.event_tree,
                !.dialog_history = sd.dialog_history,
                !.end_time = TRUE]

\* an update that appends the call's last two messages to the stored
\* history instead of replacing it
update_session_merges(row, sd, is_ended) ==
    LET n == Len(sd.dialog_history)
        k == IF n < 2 THEN n ELSE 2
    IN  [row EXCEPT !.current_event_id = sd.current_event_id,
                    !.event_status = sd.event_status,
                    !.event_tree = sd.event_tree,
                    !.dialog_history = @ \o SubSeq(sd.dialog_history, n - k + 1, n),
                    !.end_time = IF is_ended THEN TRUE ELSE row.end_time]

\* the UPDATE of update_session: end_time is set only when is_ended
update_session(row, sd, is_ended) ==
    [row EXCEPT !.current_event_id = sd.current_event_id,
                !.event_status = sd.event_status,
                !.event_tree = sd.event_tree,
                !.dialog_history = sd.dialog_history,
                !.end_time = IF is_ended THEN TRUE ELSE row.end_time]

-----------------------------------------------------------------------------
(* The daily-session codec *)

\* json.dumps writes None as null, json.loads reads null as None
JsonDumps(v) == IF v = None THEN "null" ELSE v

JsonLoads(v) == IF v = "null" THEN None ELSE v

\* the session_data a new daily session starts from
DefaultSessionData ==
    [is_empty |-> FALSE, conversation_counter |-> 0, pending_messages |-> <<>>,
     waiting_for_input |-> FALSE, last_status |-> None, initialized |-> FALSE,
     parsed_schedule |-> <<>>, conversation_history |-> <<>>,
     exit_requested |-> FALSE]

\* the empty dict {}
EmptySessionData == [DefaultSessionData EXCEPT !.is_empty = TRUE]

\* {"dialog_history": [], "session_data": {}}
EmptyDoc == [dialog_history |-> <<>>, session_data |-> EmptySessionData]

NoDailyRow == [present |-> FALSE, status |-> "active", end_time |-> FALSE, doc |-> EmptyDoc]

\* INSERT INTO dialogs ... of init_daily_session
init_daily_session ==
    [present |-> TRUE, status |-> "active", end_time |-> FALSE,
     doc |-> [dialog_history |-> <<>>,
              session_data |-> [DefaultSessionData EXCEPT !.last_status = JsonDumps(None)]]]

\* the document update_daily_session serializes; session_data without its
\* conversation_history key makes the serialization fail and the empty
\* document is written instead
daily_document(sd) ==
    IF sd.is_empty THEN EmptyDoc
    ELSE [dialog_history |-> sd.conversation_history,
          session_data |-> [sd EXCEPT !.last_status = JsonDumps(sd.last_status)]]

\* the UPDATE of update_daily_session; a session without a row is not stored
update_daily_session(row, sd, is_ended) ==
    IF ~row.present THEN row
    ELSE [row EXCEPT !.doc = daily_document(sd),
                     !.status = IF is_ended THEN "ended" ELSE "active",
                     !.end_time = IF is_ended THEN TRUE ELSE row.end_time]

\* load_daily_session, and the defaults run_daily_loop puts in place of
\* an empty session_data
load_daily_session(row) ==
    LET doc == IF row.present THEN row.doc ELSE EmptyDoc
    IN  IF doc.session_data.is_empty THEN DefaultSessionData
        ELSE [doc.session_data EXCEPT !.last_status = JsonLoads(@)]

-----------------------------------------------------------------------------
(* Save, load, save again *)

DailyMessage(role, st) == [role |-> role, status |-> st]

Slot(start, end, st) == [start_time |-> start, end_time |-> end, status |-> st]

\* time texts as hour and minute
Time(h, m) == [hh |-> h, mm |-> m]

EventStates ==
    [current_event_id : {"E001", "E002"},
     event_tree : StoredTrees \cup {<<>>},
     dialog_history : {<<>>, <<Message("user", "E001")>>,
                       <<Message("user", "E001"), Message("assistant", "E001")>>},
     event_status : {"in_progress", "success", "failure"}]

DailyStates ==
    [is_empty : {FALSE},
     conversation_counter : {0, 9},
     pending_messages : {<<>>, <<DailyMessage("user", "idle")>>},
     waiting_for_input : BOOLEAN,
     last_status : {None, "idle"},
     initialized : BOOLEAN,
     parsed_schedule : {<<>>, <<Slot(Time(9, 0), Time(12, 0), "busy")>>},
     conversation_history : {<<>>, <<DailyMessage("user", "idle")>>},
     exit_requested : BOOLEAN]

CodecIdle ==
    codec = [kind |-> "none", pc |-> "idle"]

\* an event session state, its is_ended flag and the row it is saved to
InitCodecEvent ==
    \E state \in EventStates, is_ended \in BOOLEAN, ended_before \in BOOLEAN :
        codec = [kind |-> "event", pc |-> "start", state |-> state,
                 is_ended |-> is_ended,
                 row |-> [create_session(<<>>, "E001") EXCEPT !.end_time = ended_before],
                 first |-> NoRow]

\* a daily session state and the row it is saved to; the engine saves with
\* is_ended = true exactly on the exit path
InitCodecDaily ==
    \E state \in DailyStates, ended_before \in BOOLEAN :
        codec = [kind |-> "daily", pc |-> "start", state |-> state,
                 is_ended |-> state.exit_requested,
                 row |-> [init_daily_session EXCEPT !.end_time = ended_before],
                 first |-> NoDailyRow]

CodecSave ==
    /\ codec.pc = "start"
    /\ codec' = [codec EXCEPT !.pc = "saved",
           !.row = IF codec.kind = "event"
                   THEN update_session(codec.row, codec.state, codec.is_ended)
                   ELSE update_daily_session(codec.row, codec.state, codec.is_ended)]
    /\ UNCHANGED non_codec_vars

CodecLoad ==
    /\ codec.pc = "saved"
    /\ codec' = [codec EXCEPT !.pc = "loaded",
           !.first = codec.row,
           !.state = IF codec.kind = "event" THEN load_session(codec.row)
                     ELSE load_daily_session(codec.row),
           !.is_ended = IF codec.kind = "event" THEN load_session_is_ended(codec.row)
                        ELSE load_daily_session(codec.row).exit_requested]
    /\ UNCHANGED non_codec_vars

CodecSaveAgain ==
    /\ codec.pc = "loaded"
    /\ codec' = [codec EXCEPT !.pc = "saved_again",
           !.row = IF codec.kind = "event"
                   THEN update_session(codec.row, codec.state, codec.is_ended)
                   ELSE update_daily_session(codec.row, codec.state, codec.is_ended)]
    /\ UNCHANGED non_codec_vars

-----------------------------------------------------------------------------
(* run_daily_loop: data *)

\* session ids uuid4 hands out: each one is new
DailyId(n) == "daily_" \o ToString(n)

DailySessionIds == {DailyId(n) : n \in 1..(MaxDailyCalls + 1)}

max_conversation_turns == 10

ExitPhrases == {"exit", "tuichu", "jieshu", "bye"}

\* str.lower
Lower(text) == IF text = "Exit" THEN "exit" ELSE text

\* str.strip
Strip(text) == IF text = " " THEN "" ELSE text

\* conversation_history[-10:]
Last10(history) ==
    IF Len(history) <= 10 THEN history
    ELSE SubSeq(history, Len(history) - 9, Len(history))

\* the messages value None, as returned and as the API writes it (null)
NullHistory == <<[role |-> None]>>

system_prompt(st, n) == [role |-> "system", status |-> st, turn |-> n, saved |-> FALSE]

user_message(st, n) == [role |-> "user", status |-> st, turn |-> n, saved |-> FALSE]

assistant_message(st, n) == [role |-> "assistant", status |-> st, turn |-> n, saved |-> FALSE]

\* datetime.strptime(text, "%H:%M") accepts the text
strptime_ok(t) == t.hh \in 0..23 /\ t.mm \in 0..59

slot_parses(slot) == strptime_ok(slot.start_time) /\ strptime_ok(slot.end_time)

Minutes(t) == t.hh * 60 + t.mm

\* slot_start <= current_time_obj <= slot_end
Within(slot, now) ==
    Minutes(slot.start_time) <= Minutes(now) /\ Minutes(now) <= Minutes(slot.end_time)

RECURSIVE first_status(_, _)
first_status(slots, now) ==
    IF slots = <<>> THEN "idle"
    ELSE IF Within(Head(slots), now) THEN Head(slots).status
    ELSE first_status(Tail(slots), now)

\* the scan that builds the system prompt: a slot that does not parse is skipped
status_first_scan(slots, now) == first_status(SelectSeq(slots, slot_parses), now)

Raised == "<raise>"

\* the scan inside the turn: a slot that does not parse raises when the
\* scan gets to it
RECURSIVE status_second_scan(_, _)
status_second_scan(slots, now) ==
    IF slots = <<>> THEN "idle"
    ELSE IF ~slot_parses(Head(slots)) THEN Raised
    ELSE IF Within(Head(slots), now) THEN Head(slots).status
    ELSE status_second_scan(Tail(slots), now)

\* today's slots of a stored or generated schedule
Schedules ==
    {<<>>,
     <<Slot(Time(9, 0), Time(12, 0), "busy")>>,
     <<Slot(Time(22, 0), Time(24, 0), "idle")>>,
     <<Slot(Time(9, 0), Time(12, 0), "busy"), Slot(Time(22, 0), Time(24, 0), "idle")>>}

NoSchedule == [present |-> FALSE, slots |-> <<>>]

\* generate_default_schedule(agent_profile): a working day, a weekend day
DefaultSchedules ==
    {<<Slot(Time(7, 0), Time(8, 0), "fairly_busy"), Slot(Time(8, 0), Time(12, 0), "busy"),
       Slot(Time(12, 0), Time(13, 0), "idle"), Slot(Time(13, 0), Time(17, 0), "busy"),
       Slot(Time(17, 0), Time(18, 0), "fairly_busy"), Slot(Time(18, 0), Time(19, 0), "idle"),
       Slot(Time(19, 0), Time(21, 0), "fairly_busy"), Slot(Time(21, 0), Time(23, 0), "idle")>>,
     <<Slot(Time(8, 0), Time(9, 0), "idle"), Slot(Time(9, 0), Time(12, 0), "fairly_busy"),
       Slot(Time(12, 0), Time(13, 0), "idle"), Slot(Time(13, 0), Time(17, 0), "fairly_busy"),
       Slot(Time(17, 0), Time(19, 0), "idle"), Slot(Time(19, 0), Time(22, 0), "idle")>>}

Nows == {Time(10, 0), Time(13, 0)}

UserInputs == {None, " ", "hello", "Exit", "bye"}

\* insert_agent_message for each message that has no saved key, in order;
\* a system prompt has no timestamp key and the loop raises at it
RECURSIVE flush(_, _, _, _)
flush(log, msgs, ok, mark) ==
    IF msgs = <<>> THEN [log |-> log, msgs |-> <<>>, raised |-> FALSE]
    ELSE LET m == Head(msgs)
         IN  IF m.saved
             THEN LET r == flush(log, Tail(msgs), ok, mark)
                  IN  [r EXCEPT !.msgs = <<m>> \o @]
             ELSE IF m.role = "system"
             THEN [log |-> log, msgs |-> msgs, raised |-> TRUE]
             ELSE LET r == flush(IF ok THEN Append(log, m) ELSE log, Tail(msgs), ok, mark)
                  IN  [r EXCEPT !.msgs = <<[m EXCEPT !.saved = ok /\ mark]>> \o @]

NoResponse ==
    [code |-> 0, content |-> "", session_id |-> None, waiting_for_input |-> FALSE,
     status |-> ""]

ErrorResponse(code) == [NoResponse EXCEPT !.code = code]

IdleDaily ==
    [pc |-> "idle", user_input |-> None, now |-> Time(0, 0), given_id |-> None,
     session_id |-> None, turn |-> 0, event_tree |-> <<>>,
     session_data |-> DefaultSessionData, stored_counter |-> 0,
     conversation_history |-> <<>>, prompt |-> <<>>, added |-> <<>>,
     has_messages |-> FALSE, store_ok |-> TRUE, llm_ok |-> TRUE, replied |-> FALSE,
     llm_calls |-> 0, outcome |-> "none", response |-> NoResponse,
     failed_step |-> "none",
     before_failure |-> [conversation_counter |-> 0, exit_requested |-> FALSE],
     row_before |-> NoDailyRow, schedule_failed |-> FALSE]

\* messages, as returned
messages(c) ==
    IF c.has_messages THEN c.prompt \o Last10(c.conversation_history) \o c.added
    ELSE NullHistory

\* current_dialog: a deep copy of the loaded history and what the call added
current_dialog(c) == c.conversation_history \o c.added

\* the assistant reply a caller shows: the last one in messages
last_reply(msgs) ==
    IF \E i \in 1..Len(msgs) : msgs[i].role = "assistant" THEN "reply"
    ELSE "no_reply_yet"

\* session_data['conversation_counter'] += 1
next_counter_unchanged(counter) == counter

next_counter(counter) == counter + 1

\* UPDATE agent_event_chains SET chain_json of the latest row, by state_update
state_update(ch, event_tree) ==
    IF ch.present THEN [ch EXCEPT !.event_tree = event_tree] ELSE ch

\* the document the API writes after the call
api_document(msgs, sd) ==
    [dialog_history |-> msgs,
     session_data |-> [sd EXCEPT !.last_status = JsonDumps(sd.last_status)]]

\* the API's UPDATE or INSERT of the session row
api_upsert(row, msgs, sd) ==
    [present |-> TRUE,
     status |-> IF sd.exit_requested THEN "ended" ELSE "active",
     end_time |-> IF row.present THEN row.end_time ELSE FALSE,
     doc |-> api_document(msgs, sd)]

\* dialog_history of the loaded document
load_dialog_history(row) == IF row.present THEN row.doc.dialog_history ELSE <<>>

-----------------------------------------------------------------------------
(* run_daily_loop: the call, in the steps between its store and LLM accesses *)

ReturnedCall(c) == [c EXCEPT !.pc = "returned", !.outcome = "returned"]

RaisedCall(c) == [c EXCEPT !.pc = "returned", !.outcome = "raised"]

\* a handler that leaves session_data as the failing step left it
turn_failed_unhandled(sd) == sd

\* session_data['waiting_for_input'] = True, in both except handlers
turn_failed(sd) == [sd EXCEPT !.waiting_for_input = TRUE]

\* the counter and the exit flag when a step of the turn raised
BeforeFailure(sd) ==
    [conversation_counter |-> sd.conversation_counter,
     exit_requested |-> sd.exit_requested]

\* the handler around the turn: the last two messages of current_dialog are
\* inserted, waiting_for_input is set and the session is saved
outer_except(c, log, ok) ==
    LET cd == current_dialog(c)
        n == Len(cd)
        k == IF n < 2 THEN n ELSE 2
        r == flush(log, SubSeq(cd, n - k + 1, n), ok, TRUE)
        cd2 == SubSeq(cd, 1, n - k) \o r.msgs
    IN  [call |-> ReturnedCall([c EXCEPT
                     !.added = SubSeq(cd2, Len(c.conversation_history) + 1, n),
                     !.failed_step = "outer",
                     !.before_failure = BeforeFailure(c.session_data),
                     !.session_data = turn_failed(@)]),
         log |-> r.log, save |-> TRUE]

\* the end of the function, reached when the turn had nothing to do
final_save(c, log, ok) ==
    LET cd == current_dialog(c)
        r == flush(log, cd, ok, TRUE)
    IN  [call |-> ReturnedCall([c EXCEPT
                     !.added = SubSeq(r.msgs, Len(c.conversation_history) + 1, Len(cd)),
                     !.session_data.waiting_for_input = TRUE]),
         log |-> r.log, save |-> TRUE]

\* from the system prompt to the point where the turn calls the state
\* evaluation or the LLM, or returns
prepare(c, log, ok) ==
    LET sd0 == c.session_data
        opened == [c EXCEPT
                     !.prompt = <<system_prompt(status_first_scan(sd0.parsed_schedule, c.now),
                                                c.turn)>>,
                     !.has_messages = TRUE]
        drained == [opened EXCEPT !.session_data.waiting_for_input = FALSE,
                                  !.session_data.pending_messages = <<>>,
                                  !.added = sd0.pending_messages,
                                  !.store_ok = @ /\ ok]
        log1 == IF ok THEN log \o sd0.pending_messages ELSE log
        status == status_second_scan(sd0.parsed_schedule, c.now)
        text == IF c.user_input = None THEN "" ELSE c.user_input
        scanned == [drained EXCEPT !.session_data.last_status = status]
        message == user_message(status, c.turn)
    IN  IF c.conversation_history = NullHistory
        THEN [call |-> RaisedCall(c), log |-> log, save |-> FALSE]
        ELSE IF sd0.waiting_for_input /\ c.user_input = None
        THEN [call |-> ReturnedCall(opened), log |-> log, save |-> FALSE]
        ELSE IF status = Raised
        THEN outer_except(drained, log1, ok)
        ELSE IF status # "idle" /\ Strip(text) = ""
        THEN [call |-> ReturnedCall([scanned EXCEPT !.session_data.waiting_for_input = TRUE]),
              log |-> log1, save |-> TRUE]
        ELSE IF Strip(text) = ""
        THEN final_save(scanned, log1, ok)
        ELSE IF Lower(text) \in ExitPhrases
        THEN [call |-> [scanned EXCEPT !.session_data.exit_requested = TRUE,
                                       !.session_data.waiting_for_input = FALSE,
                                       !.pc = "hook"],
              log |-> log1, save |-> FALSE]
        ELSE [call |-> [scanned EXCEPT
                          !.added = IF ok THEN Append(@, message) ELSE @,
                          !.session_data.pending_messages =
                              IF ok THEN @ ELSE Append(@, message),
                          !.pc = "llm"],
              log |-> IF ok THEN Append(log1, message) ELSE log1, save |-> FALSE]

\* an LLM request made by call c on a session whose state evaluation has run
AfterHook(c) == c.session_id \in daily_client.hooked

\* the caller hands in its session id, the engine makes one up for a caller
\* that has none, loads the session and stops at once if it has been exited
DailyBegin(p, user_input, now) ==
    LET c == daily[p]
        given == daily_client.session_id
        sid == IF given = None THEN DailyId(daily_client.issued + 1) ELSE given
        rows == IF given = None /\ ~daily_client.via_api /\ ~daily_store.dialogs[sid].present
                THEN [daily_store.dialogs EXCEPT ![sid] = init_daily_session]
                ELSE daily_store.dialogs
        sd == load_daily_session(rows[sid])
        started == [IdleDaily EXCEPT
                      !.user_input = user_input, !.now = now, !.given_id = given,
                      !.session_id = sid, !.turn = daily_client.calls + 1,
                      !.row_before = daily_store.dialogs[sid],
                      !.event_tree = IF daily_client.via_api
                                     THEN (IF chain.present THEN chain.event_tree ELSE <<>>)
                                     ELSE daily_client.event_tree,
                      !.session_data = sd,
                      !.stored_counter = sd.conversation_counter,
                      !.conversation_history = load_dialog_history(rows[sid])]
    IN  /\ c.pc \in {"idle", "done"}
        /\ daily_client.calls < MaxDailyCalls
        /\ daily_client' = [daily_client EXCEPT
                              !.calls = @ + 1,
                              !.issued = IF given = None THEN @ + 1 ELSE @]
        /\ IF daily_client.via_api /\ ~daily_store.agent
           THEN /\ daily' = [daily EXCEPT ![p] =
                      [IdleDaily EXCEPT !.pc = "done", !.user_input = user_input,
                                        !.given_id = given, !.outcome = "not_found",
                                        !.response = ErrorResponse(404)]]
                /\ UNCHANGED daily_store
           ELSE /\ daily' = [daily EXCEPT ![p] =
                      IF sd.exit_requested THEN ReturnedCall(started)
                      ELSE [started EXCEPT !.pc = IF sd.initialized THEN "scan" ELSE "init"]]
                /\ daily_store' = [daily_store EXCEPT !.dialogs = rows]
        /\ UNCHANGED chain
        /\ UNCHANGED non_daily_vars

\* the first run on a session: the agent, the event chain and the schedule
\* are read, and a schedule is generated by the LLM if none is stored
DailyInitialize(p, generated_ok, generated) ==
    LET c == daily[p]
        stored == daily_store.schedule
        slots == IF stored.present THEN stored.slots ELSE generated
        tree == IF chain.present THEN chain.event_tree ELSE c.event_tree
    IN  /\ c.pc = "init"
        /\ IF ~daily_store.agent
           THEN /\ daily' = [daily EXCEPT ![p] = ReturnedCall(c)]
                /\ UNCHANGED <<daily_store, daily_client>>
           ELSE IF stored.present
           THEN /\ daily' = [daily EXCEPT ![p] =
                      [c EXCEPT !.event_tree = tree,
                                !.session_data.parsed_schedule = slots,
                                !.session_data.initialized = TRUE,
                                !.pc = "scan"]]
                /\ UNCHANGED <<daily_store, daily_client>>
           ELSE IF ~generated_ok
           THEN /\ daily' = [daily EXCEPT ![p] =
                      RaisedCall([c EXCEPT !.llm_calls = @ + 1, !.llm_ok = FALSE,
                                           !.schedule_failed = TRUE,
                                           !.event_tree = tree])]
                /\ daily_client' = [daily_client EXCEPT
                                      !.llm_after_hook = @ \/ AfterHook(c)]
                /\ UNCHANGED daily_store
           ELSE /\ daily' = [daily EXCEPT ![p] =
                      [c EXCEPT !.llm_calls = @ + 1,
                                !.event_tree = tree,
                                !.session_data.parsed_schedule = slots,
                                !.session_data.initialized = TRUE,
                                !.pc = "scan"]]
                /\ daily_store' = [daily_store EXCEPT
                                     !.schedule = [present |-> TRUE, slots |-> generated]]
                /\ daily_client' = [daily_client EXCEPT
                                      !.llm_after_hook = @ \/ AfterHook(c)]
        /\ UNCHANGED chain
        /\ UNCHANGED non_daily_vars

\* the turn up to the state evaluation or the LLM call
DailyPrepare(p, insert_ok) ==
    LET c == daily[p]
        r == prepare(c, daily_store.agent_messages, insert_ok)
        row == daily_store.dialogs[c.session_id]
    IN  /\ c.pc = "scan"
        /\ daily' = [daily EXCEPT ![p] = r.call]
        /\ daily_store' = [daily_store EXCEPT
                             !.agent_messages = r.log,
                             !.dialogs[c.session_id] =
                                 IF r.save
                                 THEN update_daily_session(row, r.call.session_data, FALSE)
                                 ELSE row]
        /\ UNCHANGED <<chain, daily_client>>
        /\ UNCHANGED non_daily_vars

max_retries == 2

\* the exit path: evaluate_state_change asks the LLM up to max_retries
\* times, state_update writes the event chain back, the dialog is inserted
\* and the session is saved as ended
DailyHook(p, attempts, insert_ok) ==
    LET c == daily[p]
        evaluated == [c EXCEPT !.llm_calls = @ + attempts, !.store_ok = @ /\ insert_ok]
        r == flush(daily_store.agent_messages, current_dialog(c), insert_ok, FALSE)
        failed == outer_except(evaluated, r.log, insert_ok)
        row == daily_store.dialogs[c.session_id]
    IN  /\ c.pc = "hook"
        /\ attempts \in 1..max_retries
        /\ chain' = state_update(chain, c.event_tree)
        /\ daily_client' = [daily_client EXCEPT !.hooked = @ \cup {c.session_id}]
        /\ IF r.raised
           THEN /\ daily' = [daily EXCEPT ![p] = failed.call]
                /\ daily_store' = [daily_store EXCEPT
                       !.agent_messages = failed.log,
                       !.dialogs[c.session_id] =
                           update_daily_session(row, failed.call.session_data, FALSE)]
           ELSE /\ daily' = [daily EXCEPT ![p] = ReturnedCall(evaluated)]
                /\ daily_store' = [daily_store EXCEPT
                       !.agent_messages = r.log,
                       !.dialogs[c.session_id] =
                           update_daily_session(row, evaluated.session_data, TRUE)]
        /\ UNCHANGED non_daily_vars

\* the LLM call of the turn, the insert of its reply, the turn counter and
\* the save
DailyReply(p, reply_ok, insert_ok) ==
    LET c == daily[p]
        called == [c EXCEPT !.llm_calls = @ + 1, !.llm_ok = @ /\ reply_ok]
        message == assistant_message(c.session_data.last_status, c.turn)
        counter == next_counter(c.session_data.conversation_counter)
        replied == [called EXCEPT
                      !.replied = TRUE,
                      !.store_ok = @ /\ insert_ok,
                      !.added = IF insert_ok THEN Append(@, message) ELSE @,
                      !.session_data.pending_messages =
                          IF insert_ok THEN @ ELSE Append(@, message),
                      !.session_data.conversation_counter = counter,
                      !.session_data.waiting_for_input =
                          IF counter >= max_conversation_turns THEN FALSE ELSE FALSE]
        failed == [called EXCEPT !.failed_step = "inner",
                                 !.before_failure = BeforeFailure(c.session_data),
                                 !.session_data = turn_failed(@)]
        result == ReturnedCall(IF reply_ok THEN replied ELSE failed)
        row == daily_store.dialogs[c.session_id]
    IN  /\ c.pc = "llm"
        /\ daily' = [daily EXCEPT ![p] = result]
        /\ daily_store' = [daily_store EXCEPT
               !.agent_messages = IF reply_ok /\ insert_ok THEN Append(@, message) ELSE @,
               !.dialogs[c.session_id] =
                   update_daily_session(row, result.session_data, FALSE)]
        /\ daily_client' = [daily_client EXCEPT !.llm_after_hook = @ \/ AfterHook(c)]
        /\ UNCHANGED chain
        /\ UNCHANGED non_daily_vars

\* the call is over: an API caller's session row is written and the response
\* built, a direct caller gets the tuple
DailyReturn(p) ==
    LET c == daily[p]
        row == daily_store.dialogs[c.session_id]
        sd == c.session_data
        response == [code |-> 200, content |-> last_reply(messages(c)),
                     session_id |-> c.session_id,
                     waiting_for_input |-> sd.waiting_for_input,
                     status |-> IF sd.exit_requested THEN "ended" ELSE "active"]
    IN  /\ c.pc = "returned"
        /\ IF c.outcome = "raised"
           THEN /\ daily' = [daily EXCEPT ![p] =
                      [c EXCEPT !.pc = "done",
                                !.response = IF daily_client.via_api
                                             THEN ErrorResponse(500) ELSE NoResponse]]
                /\ UNCHANGED <<daily_store, daily_client>>
           ELSE IF daily_client.via_api
           THEN /\ daily_store' = [daily_store EXCEPT
                       !.dialogs[c.session_id] = api_upsert(row, messages(c), sd)]
                /\ daily' = [daily EXCEPT ![p] =
                      [c EXCEPT !.pc = "done",
                                !.response = IF c.has_messages THEN response
                                             ELSE ErrorResponse(500)]]
                /\ daily_client' = [daily_client EXCEPT
                       !.session_id = IF c.has_messages THEN c.session_id ELSE @]
           ELSE /\ daily' = [daily EXCEPT ![p] = [c EXCEPT !.pc = "done"]]
                /\ daily_client' = [daily_client EXCEPT !.session_id = c.session_id]
                /\ UNCHANGED daily_store
        /\ UNCHANGED chain
        /\ UNCHANGED non_daily_vars

DailyStep(p, inputs, nows, schedules) ==
    \/ \E user_input \in inputs, now \in nows : DailyBegin(p, user_input, now)
    \/ \E generated_ok \in BOOLEAN, generated \in schedules :
            DailyInitialize(p, generated_ok, generated)
    \/ \E insert_ok \in BOOLEAN : DailyPrepare(p, insert_ok)
    \/ \E attempts \in 1..max_retries, insert_ok \in BOOLEAN :
            DailyHook(p, attempts, insert_ok)
    \/ \E reply_ok \in BOOLEAN, insert_ok \in BOOLEAN : DailyReply(p, reply_ok, insert_ok)
    \/ DailyReturn(p)

\* no daily session yet, no call in progress
DailyIdleAgent(agent) ==
    /\ daily_store = [agent |-> agent, schedule |-> NoSchedule,
                      dialogs |-> [s \in DailySessionIds |-> NoDailyRow],
                      agent_messages |-> <<>>]
    /\ daily = [p \in Procs |-> IdleDaily]
    /\ daily_client = [via_api |-> FALSE, session_id |-> None, event_tree |-> <<>>,
                       issued |-> 0, calls |-> 0, hooked |-> {},
                       llm_after_hook |-> FALSE]

DailyIdle == DailyIdleAgent(FALSE)

-----------------------------------------------------------------------------
(* The global events poll: global_event_counter and GET /api/v1/events *)

MAX_LIMIT == 100

\* LPAD(id, 6, '0') and f"{global_id:06d}"
Lpad6(n) ==
    IF n < 10 THEN "00000" \o ToString(n)
    ELSE IF n < 100 THEN "0000" \o ToString(n)
    ELSE IF n < 1000 THEN "000" \o ToString(n)
    ELSE IF n < 10000 THEN "00" \o ToString(n)
    ELSE IF n < 100000 THEN "0" \o ToString(n)
    ELSE ToString(n)

\* the numbers a cursor text may stand for
CursorNumbers == 0..MaxGlobalEvents

\* last_event_id as the app sends it: six digits, a number without its
\* leading zeros, a number past 999999, a text that is no number, nothing
CursorTexts ==
    {Lpad6(n) : n \in CursorNumbers} \cup {ToString(n) : n \in CursorNumbers}
        \cup {"1000000", "abc", ""}

\* int(last_event_id), where the text is a number
ParseCursor(text) ==
    IF \E n \in CursorNumbers : text \in {Lpad6(n), ToString(n)}
    THEN CHOOSE n \in CursorNumbers : text \in {Lpad6(n), ToString(n)}
    ELSE IF text = "1000000" THEN 1000000
    ELSE -1

CursorParses(text) ==
    \/ \E n \in CursorNumbers : text \in {Lpad6(n), ToString(n)}
    \/ text = "1000000"

\* the ids in ascending order
RECURSIVE Ascending(_)
Ascending(ids) ==
    IF ids = {} THEN <<>>
    ELSE LET least == CHOOSE i \in ids : \A j \in ids : i <= j
         IN  <<least>> \o Ascending(ids \ {least})

FirstN(s, n) == IF Len(s) <= n THEN s ELSE SubSeq(s, 1, n)

\* SELECT ... WHERE id > %s ORDER BY id ASC LIMIT %s
get_events_after(rows, last_event_num, limit) ==
    LET capped == IF limit > MAX_LIMIT THEN MAX_LIMIT ELSE limit
    IN  FirstN(Ascending({i \in rows : i > last_event_num}), capped)

NoPollResponse == [code |-> 0, events |-> <<>>, has_more |-> FALSE]

\* has_more set whenever any event is returned
has_more_when_rows(events, limit) == Len(events) > 0

\* has_more = len(return_events) == limit
has_more(events, limit) == Len(events) = limit

\* the response of list_events
list_events(rows, text, limit) ==
    IF text = "" THEN [NoPollResponse EXCEPT !.code = 400]
    ELSE IF ~CursorParses(text) \/ ParseCursor(text) < 0 \/ ParseCursor(text) > 999999
    THEN [NoPollResponse EXCEPT !.code = 400]
    ELSE IF limit < 1 \/ limit > MAX_LIMIT
    THEN [NoPollResponse EXCEPT !.code = 400]
    ELSE LET events == get_events_after(rows, ParseCursor(text), limit)
             return_events == [j \in 1..Len(events) |-> Lpad6(events[j])]
         IN  [code |-> 200, events |-> return_events,
              has_more |-> has_more(return_events, limit)]

\* no event numbered yet, no poll answered
PollIdle ==
    events_poll = [counter |-> 0, rows |-> {}, last_event_id |-> "", limit |-> 0,
                   rows_read |-> {}, response |-> NoPollResponse]

\* generate_global_event_id: the INSERT takes the next number of the
\* AUTO_INCREMENT column; an INSERT that fails may have used the number up
GenerateGlobalEventId(ok, used) ==
    /\ events_poll.counter < MaxGlobalEvents
    /\ ok => used
    /\ events_poll' = [events_poll EXCEPT
           !.counter = IF used THEN @ + 1 ELSE @,
           !.rows = IF ok THEN @ \cup {events_poll.counter + 1} ELSE @]
    /\ UNCHANGED non_poll_vars

\* GET /api/v1/events?last_event_id=...&limit=...
ListEvents(text, limit) ==
    /\ events_poll' = [events_poll EXCEPT
           !.last_event_id = text, !.limit = limit, !.rows_read = events_poll.rows,
           !.response = list_events(events_poll.rows, text, limit)]
    /\ UNCHANGED non_poll_vars

-----------------------------------------------------------------------------
(* run_event_loop *)

NoResult ==
    [kind |-> "none", content |-> {}, issue_id |-> None, event_status |-> None, is_ended |-> FALSE]

ErrorResult ==
    [kind |-> "error", content |-> {}, issue_id |-> None, event_status |-> None, is_ended |-> TRUE]

RaisedResult ==
    [kind |-> "raised", content |-> {}, issue_id |-> None, event_status |-> None, is_ended |-> FALSE]

IdleCall ==
    [pc |-> "idle", sid |-> 0, session_data |-> NoSessionData,
     prev_event_id |-> None, agent_reply |-> {}, event_status |-> "in_progress",
     is_ended |-> FALSE, chain_read |-> NoChain, selector |-> None,
     next_event_id |-> None, llm_calls |-> 0, wrote_session |-> FALSE,
     wrote_tree |-> FALSE, after_end |-> FALSE, no_row |-> FALSE,
     failed_at |-> "none", result |-> NoResult]

FreeSessionIds == {s \in SessionIds : ~dialogs[s].present}

\* steps 2-5: read the agent, find the current event, then append the user
\* message; a missing agent and an event id that is not in the tree raise
Prepare(c, sid, sd, afterEnd, wrote) ==
    IF ~daily_store.agent
    THEN [c EXCEPT !.pc = "done", !.sid = sid, !.after_end = afterEnd,
                   !.wrote_session = wrote, !.failed_at = "agent",
                   !.result = RaisedResult]
    ELSE IF ~HasEvent(sd.event_tree, sd.current_event_id)
    THEN [c EXCEPT !.pc = "done", !.sid = sid, !.after_end = afterEnd,
                   !.wrote_session = wrote, !.failed_at = "event",
                   !.result = RaisedResult]
    ELSE [c EXCEPT !.pc = "ready", !.sid = sid, !.after_end = afterEnd,
                   !.wrote_session = wrote,
                   !.prev_event_id = sd.current_event_id,
                   !.session_data = [sd EXCEPT !.dialog_history =
                        Append(@, Message("user", sd.current_event_id))]]

\* a call without session_id: the tree comes from the store, the session
\* row is inserted
BeginNew(p, event_id) ==
    /\ call[p].pc = "idle"
    /\ ncalls < MaxCalls
    /\ FreeSessionIds # {}
    /\ ncalls' = ncalls + 1
    /\ LET tree == chain.event_tree
           sid  == CHOOSE s \in FreeSessionIds : \A t \in FreeSessionIds : s <= t
           init == IF event_id # None THEN event_id ELSE get_intro_event(tree)
       IN  IF ~chain.present \/ tree = <<>> \/ init = None
           THEN /\ call' = [call EXCEPT ![p] = [@ EXCEPT !.pc = "done",
                                                         !.result = RaisedResult]]
                /\ UNCHANGED dialogs
           ELSE /\ dialogs' = [dialogs EXCEPT ![sid] = create_session(tree, init)]
                /\ call' = [call EXCEPT ![p] =
                       Prepare(@, sid, load_session(create_session(tree, init)),
                               FALSE, TRUE)]
    /\ UNCHANGED <<chain, ended_done>>
    /\ UNCHANGED non_event_vars

\* a call with session_id: load_session, and the early return on an ended one
BeginContinue(p, sid) ==
    /\ call[p].pc = "idle"
    /\ ncalls < MaxCalls
    /\ ncalls' = ncalls + 1
    /\ LET row == dialogs[sid]
       IN  IF ~row.present
           THEN call' = [call EXCEPT ![p] = [@ EXCEPT !.pc = "done", !.sid = sid,
                                                      !.no_row = TRUE,
                                                      !.result = RaisedResult]]
           ELSE IF load_session_is_ended(row)
           THEN call' = [call EXCEPT ![p] = [@ EXCEPT !.pc = "done", !.sid = sid,
                                  !.after_end = sid \in ended_done,
                                  !.result = ErrorResult]]
           ELSE call' = [call EXCEPT ![p] =
                    Prepare(@, sid, load_session(row), sid \in ended_done, FALSE)]
    /\ UNCHANGED <<chain, dialogs, ended_done>>
    /\ UNCHANGED non_event_vars

\* step 6: the LLM call, the assistant message and the end markers
Reply(p, reply) ==
    /\ call[p].pc = "ready"
    /\ call' = [call EXCEPT ![p] =
           IF reply = LLMError
           THEN [@ EXCEPT !.pc = "replied", !.agent_reply = reply,
                          !.llm_calls = @ + 1]
           ELSE [@ EXCEPT !.pc = "replied", !.agent_reply = reply,
                          !.llm_calls = @ + 1,
                          !.session_data.dialog_history =
                              Append(@, Message("assistant", call[p].prev_event_id)),
                          !.event_status = ClassifyStatus(reply),
                          !.is_ended = ClassifyEnded(reply)]]
    /\ UNCHANGED <<chain, dialogs, ended_done, ncalls>>
    /\ UNCHANGED non_event_vars

\* step 7, first half: update_event_status selects the agent's chain row
StatusRead(p) ==
    /\ call[p].pc = "replied"
    /\ call' = [call EXCEPT ![p] =
           IF chain.present
           THEN [@ EXCEPT !.pc = "status_read", !.chain_read = chain]
           ELSE [@ EXCEPT !.pc = "status_done"]]
    /\ UNCHANGED <<chain, dialogs, ended_done, ncalls>>
    /\ UNCHANGED non_event_vars

\* step 7, second half: the status is set on the first matching event and the
\* document is written back; an unknown event id raises and is swallowed
StatusWrite(p) ==
    /\ call[p].pc = "status_read"
    /\ LET c == call[p]
       IN  IF HasEvent(c.chain_read.event_tree, c.prev_event_id)
           THEN /\ chain' = [c.chain_read EXCEPT !.event_tree =
                        SetStatus(@, c.prev_event_id, c.event_status)]
                /\ call' = [call EXCEPT ![p] = [@ EXCEPT !.pc = "status_done",
                                                         !.wrote_tree = TRUE]]
           ELSE /\ call' = [call EXCEPT ![p] = [@ EXCEPT !.pc = "status_done"]]
                /\ UNCHANGED chain
    /\ UNCHANGED <<dialogs, ended_done, ncalls>>
    /\ UNCHANGED non_event_vars

\* step 8: the selector is asked only after a success
SelectNext(p, text) ==
    /\ call[p].pc = "status_done"
    /\ call[p].event_status = "success"
    /\ call' = [call EXCEPT ![p] = [@ EXCEPT !.pc = "selected",
           !.selector = text,
           !.llm_calls = @ + 1,
           !.next_event_id =
               get_next_event_from_chain(call[p].session_data.event_tree, text)]]
    /\ UNCHANGED <<chain, dialogs, ended_done, ncalls>>
    /\ UNCHANGED non_event_vars

\* steps 8-10: next_event_id, update_session and the returned dict
Finish(p) ==
    /\ \/ call[p].pc = "selected"
       \/ call[p].pc = "status_done" /\ call[p].event_status # "success"
    /\ LET c    == call[p]
           next == IF c.next_event_id # None THEN c.next_event_id
                   ELSE c.prev_event_id
           sd   == [c.session_data EXCEPT !.current_event_id = next,
                                          !.event_status = c.event_status]
       IN  /\ dialogs' = [dialogs EXCEPT ![c.sid] = update_session(@, sd, c.is_ended)]
           /\ call' = [call EXCEPT ![p] = [@ EXCEPT !.pc = "done",
                  !.session_data = sd,
                  !.wrote_session = TRUE,
                  !.result = [kind |-> "ok", content |-> c.agent_reply,
                              issue_id |-> next,
                              event_status |-> c.event_status,
                              is_ended |-> c.is_ended]]]
           /\ ended_done' = IF c.is_ended THEN ended_done \cup {c.sid} ELSE ended_done
    /\ UNCHANGED <<chain, ncalls>>
    /\ UNCHANGED non_event_vars

\* the caller takes the result; the slot is free for the next call
Return(p) ==
    /\ call[p].pc = "done"
    /\ call' = [call EXCEPT ![p] = IdleCall]
    /\ UNCHANGED <<chain, dialogs, ended_done, ncalls>>
    /\ UNCHANGED non_event_vars

\* the keys of the dict run_event_loop returns
ResultKeys(result) ==
    IF result.kind = "ok"
    THEN {"content", "issue_id", "event_status", "is_ended", "session_id", "dialog_history"}
    ELSE IF result.kind = "error" THEN {"error", "session_id", "is_ended"}
    ELSE {}

\* what POST /api/event answers with
EventFailure == [code |-> 500, keys |-> {"error"}, is_ended |-> None, status |-> None]

\* POST /api/event: response_data is built from the keys issue_id, content,
\* session_id, is_ended and event_status of the result; an exception of the
\* call and a key the result does not have end in the handler's except
event_response(result) ==
    IF {"issue_id", "content", "session_id", "is_ended", "event_status"}
           \subseteq ResultKeys(result)
    THEN [code |-> 200,
          keys |-> {"agent_id", "issue_id", "content", "session_id", "is_ended",
                    "status", "async_processing"},
          is_ended |-> result.is_ended, status |-> result.event_status]
    ELSE EventFailure

\* one step of a call; the sets are what the callers and the LLM may supply
EventStep(p, ids, replies, texts) ==
    \/ \E event_id \in ids : BeginNew(p, event_id)
    \/ \E sid \in SessionIds : BeginContinue(p, sid)
    \/ \E reply \in replies : Reply(p, reply)
    \/ StatusRead(p)
    \/ StatusWrite(p)
    \/ \E text \in texts : SelectNext(p, text)
    \/ Finish(p)
    \/ Return(p)

\* no session yet and no call in progress
EventIdle ==
    /\ dialogs = [s \in SessionIds |-> NoRow]
    /\ call = [p \in Procs |-> IdleCall]
    /\ ended_done = {}
    /\ ncalls = 0

InitEvent ==
    /\ \E tree \in StoredTrees : chain = [present |-> TRUE, event_tree |-> tree]
    /\ EventIdle
    /\ GenIdle
    /\ CodecIdle
    /\ \E agent \in BOOLEAN : DailyIdleAgent(agent)
    /\ PollIdle

\* one client: its calls follow one another
NextEventSeq ==
    EventStep("p1", {None, "E002", "E009"}, Replies \cup {LLMError},
              SelectorTexts \cup {"<exception>"})

SpecEventSeq == InitEvent /\ [][NextEventSeq]_vars

\* several clients: calls interleave at their store and LLM accesses
NextEvent ==
    \E p \in Procs :
        EventStep(p, {None}, {{}, SuccessMarker}, {"1", "none"})

SpecEvent == InitEvent /\ [][NextEvent]_vars

-----------------------------------------------------------------------------
(* The generator on its own: no row is stored at first *)

\* what the lifecycle request yields when the instance makes it: nothing, or
\* the stages of the whole tree
LifecycleReplies == IF gen.stages = 0 THEN {0, MaxStages} ELSE {gen.stages}

\* the stage the prompt asks for, by which the LLM names the stage it returns
AskedStageName == "S" \o ToString(Len(gen.full_event_tree) + 1)

InitGen ==
    /\ chain = NoChain
    /\ EventIdle
    /\ GenIdle
    /\ CodecIdle
    /\ DailyIdle
    /\ PollIdle

NextGen ==
    \/ GenerateAndSaveLoad
    \/ \E ok \in BOOLEAN, name \in StageNames, listed \in StageReplies(1) :
            GenerateAndSaveNew(ok, name, listed)
    \/ \E lifecycle \in LifecycleReplies, failures \in {0, stage_max_retries},
          name \in {AskedStageName} :
            \E listed \in StageReplies(ParseId(get_next_event_id)) :
                GenerateNextStageEvents(lifecycle, failures, name, listed)
    \/ NewGenerator

SpecGen == InitGen /\ [][NextGen]_vars

-----------------------------------------------------------------------------
(* Stage generation on its own: the agent has its initial tree or none *)

\* the tree generate_and_save stores for a new agent
TreeInitial == <<Stage("S1", initial_event_list(<<Event(NoKey, "unfinished")>>))>>

InitStage ==
    /\ chain \in {NoChain, save_tree(TreeInitial)}
    /\ EventIdle
    /\ gen_log = NoLog
    /\ gen \in {NewGen} \cup
                {[NewGen EXCEPT !.full_event_tree = chain.event_tree,
                                !.last_event_id = "E001"] : present \in {TRUE} \cap {chain.present}}
    /\ CodecIdle
    /\ DailyIdle
    /\ PollIdle

NextStage ==
    \/ \E lifecycle \in LifecycleReplies, failures \in Failures,
          name \in {AskedStageName} :
            \E listed \in StageReplies(ParseId(get_next_event_id)) :
                GenerateNextStageEvents(lifecycle, failures, name, listed)
    \/ NewGenerator

SpecStage == InitStage /\ [][NextStage]_vars

-----------------------------------------------------------------------------
(* The codecs on their own *)

InitCodec ==
    /\ chain = NoChain
    /\ EventIdle
    /\ GenIdle
    /\ DailyIdle
    /\ PollIdle
    /\ InitCodecEvent \/ InitCodecDaily

NextCodec == CodecSave \/ CodecLoad \/ CodecSaveAgain

SpecCodec == InitCodec /\ [][NextCodec]_vars

-----------------------------------------------------------------------------
(* The daily loop: one caller, through the API or calling run_daily_loop *)

\* what the API has stored as dialog_history after n exchanges
RECURSIVE api_history(_, _)
api_history(n, st) ==
    IF n = 0 THEN <<>>
    ELSE <<system_prompt(st, 0)>> \o Last10(api_history(n - 1, st))
            \o <<user_message(st, 0), assistant_message(st, 0)>>

\* agent_messages after n exchanges
RECURSIVE flat_log(_, _)
flat_log(n, st) ==
    IF n = 0 THEN <<>>
    ELSE flat_log(n - 1, st) \o <<user_message(st, 0), assistant_message(st, 0)>>

\* the row of a session one exchange short of max_conversation_turns
SeededRow(via_api, slots, st) ==
    LET sd == [DefaultSessionData EXCEPT
                 !.conversation_counter = max_conversation_turns - 1,
                 !.last_status = st, !.initialized = TRUE, !.parsed_schedule = slots]
    IN  IF via_api
        THEN api_upsert(NoDailyRow, api_history(max_conversation_turns - 1, st), sd)
        ELSE update_daily_session(init_daily_session, sd, FALSE)

InitDaily ==
    /\ chain \in {NoChain, [present |-> TRUE, event_tree |-> TreeDistinct]}
    /\ EventIdle
    /\ GenIdle
    /\ CodecIdle
    /\ daily = [p \in Procs |-> IdleDaily]
    /\ PollIdle
    /\ \E via_api \in BOOLEAN, agent \in BOOLEAN,
          schedule \in {NoSchedule} \cup {[present |-> TRUE, slots |-> s] : s \in Schedules} :
          LET tree == IF chain.present THEN chain.event_tree ELSE <<>>
              no_rows == [s \in DailySessionIds |-> NoDailyRow]
          IN  \/ /\ daily_store = [agent |-> agent, schedule |-> schedule,
                                   dialogs |-> no_rows, agent_messages |-> <<>>]
                 /\ daily_client = [via_api |-> via_api, session_id |-> None,
                                    event_tree |-> tree, issued |-> 0, calls |-> 0,
                                    hooked |-> {}, llm_after_hook |-> FALSE]
              \/ /\ agent
                 /\ schedule.present
                 /\ \E now \in Nows :
                      LET st == status_second_scan(schedule.slots, now)
                      IN  /\ st # Raised
                          /\ daily_store =
                               [agent |-> TRUE, schedule |-> schedule,
                                dialogs |-> [no_rows EXCEPT ![DailyId(1)] =
                                               SeededRow(via_api, schedule.slots, st)],
                                agent_messages |->
                                    flat_log(max_conversation_turns - 1, st)]
                 /\ daily_client = [via_api |-> via_api, session_id |-> DailyId(1),
                                    event_tree |-> tree, issued |-> 1, calls |-> 0,
                                    hooked |-> {}, llm_after_hook |-> FALSE]

NextDaily == DailyStep("p1", UserInputs, Nows, Schedules)

SpecDaily == InitDaily /\ [][NextDaily]_vars

-----------------------------------------------------------------------------
(* The daily loop under two requests at once: the calls interleave at their *)
(* store and LLM accesses                                                   *)

NextDailyRace ==
    \E p \in Procs : DailyStep(p, {"hello", "bye"}, {Time(13, 0)}, {<<>>})

SpecDailyRace == InitDaily /\ [][NextDailyRace]_vars

-----------------------------------------------------------------------------
(* The events poll: events are numbered while the app polls *)

\* limit as the app sends it: too small, in range, too large
Limits == 0..MaxLimit \cup {MAX_LIMIT + 1}

InitPoll ==
    /\ chain = NoChain
    /\ EventIdle
    /\ GenIdle
    /\ CodecIdle
    /\ DailyIdle
    /\ PollIdle

NextPoll ==
    \/ \E ok \in BOOLEAN, used \in BOOLEAN : GenerateGlobalEventId(ok, used)
    \/ \E text \in CursorTexts, limit \in Limits : ListEvents(text, limit)

SpecPoll == InitPoll /\ [][NextPoll]_vars

-----------------------------------------------------------------------------
(* One agent's tree under its three writers: the generator, the event   *)
(* loop's status update and the daily loop's exit hook                  *)

InitTree ==
    /\ chain = save_tree(TreeInitial)
    /\ EventIdle
    /\ gen = [NewGen EXCEPT !.full_event_tree = TreeInitial, !.last_event_id = "E001"]
    /\ gen_log = NoLog
    /\ CodecIdle
    /\ daily = [p \in Procs |-> IdleDaily]
    /\ daily_store = [agent |-> TRUE, schedule |-> [present |-> TRUE, slots |-> <<>>],
                      dialogs |-> [s \in DailySessionIds |-> NoDailyRow],
                      agent_messages |-> <<>>]
    /\ daily_client = [via_api |-> TRUE, session_id |-> None,
                       event_tree |-> TreeInitial, issued |-> 0, calls |-> 0,
                       hooked |-> {}, llm_after_hook |-> FALSE]
    /\ PollIdle

NextTree ==
    \/ GenerateNextStageEvents(MaxStages, 0, AskedStageName,
                               <<Event(get_next_event_id, "unfinished")>>)
    \/ EventStep("p1", {None}, {SuccessMarker}, {"none"})
    \/ DailyBegin("p2", "bye", Time(13, 0))
    \/ DailyInitialize("p2", TRUE, <<>>)
    \/ DailyPrepare("p2", TRUE)
    \/ DailyHook("p2", 1, TRUE)
    \/ DailyReturn("p2")

SpecTree == InitTree /\ [][NextTree]_vars

-----------------------------------------------------------------------------
(* Properties of the event loop engine *)

\* C1: a call that starts on a session after a call on it has returned
\* is_ended = true is rejected at once: it returns the error result with
\* is_ended = true, makes no LLM call and writes neither the session row nor
\* the stored event tree.
C1_EndedSessionRejected ==
    \A p \in Procs :
        call[p].after_end =>
            /\ call[p].pc = "done"
            /\ call[p].result = ErrorResult
            /\ call[p].result.is_ended
            /\ call[p].llm_calls = 0
            /\ ~call[p].wrote_session
            /\ ~call[p].wrote_tree

C1_Witness ==
    \E p \in Procs :
        /\ call[p].after_end
        /\ call[p].pc = "done"
        /\ call[p].sid \in ended_done
        /\ dialogs[call[p].sid].end_time

\* C2: when the reply contains the success marker, the call returns
\* event_status = success and is_ended = true, and the stored tree's event
\* with the call's event id has status success.
C2_SuccessRecorded ==
    \A p \in Procs :
        (/\ call[p].pc = "done"
         /\ call[p].result.kind = "ok"
         /\ SuccessMarker \subseteq call[p].agent_reply)
        =>  /\ call[p].result.event_status = "success"
            /\ call[p].result.is_ended
            /\ chain.present
            /\ HasEvent(chain.event_tree, call[p].prev_event_id)
            /\ StatusOf(chain.event_tree, call[p].prev_event_id) = "success"

C2_Witness ==
    \E p \in Procs :
        /\ call[p].pc = "done"
        /\ call[p].result.kind = "ok"
        /\ SuccessMarker \subseteq call[p].agent_reply
        /\ call[p].wrote_tree

\* C3: a reply that contains both the success marker and the failure marker
\* is classified as success.
C3_SuccessBeforeFailure ==
    \A p \in Procs :
        (/\ call[p].pc \in {"replied", "status_read", "status_done", "selected", "done"}
         /\ (SuccessMarker \cup FailureMarker) \subseteq call[p].agent_reply)
        =>  /\ call[p].event_status = "success"
            /\ call[p].pc = "done" => call[p].result.event_status = "success"

C3_Witness ==
    \E p \in Procs :
        /\ call[p].pc = "done"
        /\ call[p].result.kind = "ok"
        /\ (SuccessMarker \cup FailureMarker) \subseteq call[p].agent_reply

\* the selector's reply is a decimal index into event_details
SelectorInRange(c) ==
    /\ Parseable(c.selector)
    /\ 0 <= ParseInt(c.selector)
    /\ ParseInt(c.selector) < Len(event_details(c.session_data.event_tree, 1))

\* the event the selector's index designates in event_details
SelectedEventId(c) ==
    event_details(c.session_data.event_tree, 1)[ParseInt(c.selector) + 1].event_id

\* C4: at the end of a call the stored current_event_id is the id of the
\* selected event when the event succeeded and the selector's index is
\* parseable and in range, and the previous current_event_id otherwise.
C4_CurrentEventIdAtEnd ==
    \A p \in Procs :
        (call[p].pc = "done" /\ call[p].result.kind = "ok")
        =>  dialogs[call[p].sid].current_event_id =
                IF call[p].event_status = "success" /\ SelectorInRange(call[p])
                THEN SelectedEventId(call[p])
                ELSE call[p].prev_event_id

\* C11: a call on a session id for which no row exists does not raise: the
\* loader hands back an empty-history state and the engine goes on as for a
\* fresh session.
C11_MissingSessionIsFresh ==
    \A p \in Procs :
        (call[p].pc = "done" /\ call[p].no_row) => call[p].result.kind # "raised"

\* C15: when the LLM call of run_event_loop raises, the call returns the
\* error text as content with event_status in progress and is_ended false,
\* the session keeps its current_event_id and gets no end_time.
C15_LLMErrorKeepsSession ==
    \A p \in Procs :
        (call[p].pc = "done" /\ call[p].agent_reply = LLMError)
        =>  /\ call[p].result.kind = "ok"
            /\ call[p].result.content = LLMError
            /\ call[p].result.event_status = "in_progress"
            /\ ~call[p].result.is_ended
            /\ call[p].result.issue_id = call[p].prev_event_id
            /\ dialogs[call[p].sid].present
            /\ dialogs[call[p].sid].current_event_id = call[p].prev_event_id
            /\ ~dialogs[call[p].sid].end_time

\* a call on a stored session whose LLM call raised has saved the session
C15_Witness ==
    \E p \in Procs :
        /\ call[p].pc = "done"
        /\ call[p].agent_reply = LLMError
        /\ call[p].wrote_session
        /\ call[p].llm_calls = 1
        /\ ncalls > 1

\* C17: a run_event_loop call that fails because the agent does not exist or
\* because the current event id is not in the tree leaves the store as it
\* was: no session row created or modified, the tree not written.
C17_FailedCallWritesNothing ==
    \A p \in Procs :
        (call[p].pc = "done" /\ call[p].failed_at \in {"agent", "event"})
        =>  /\ call[p].result.kind = "raised"
            /\ ~call[p].wrote_session
            /\ ~call[p].wrote_tree

-----------------------------------------------------------------------------
(* Properties of the events poll *)

\* the events newer than the cursor when the poll read the table
NewerEvents ==
    {i \in events_poll.rows_read : i > ParseCursor(events_poll.last_event_id)}

\* the response lists the lowest-numbered newer events, at most limit of
\* them, in ascending order of id
LowestNewerAscending ==
    LET events == events_poll.response.events
        returned == {i \in NewerEvents : \E j \in 1..Len(events) : events[j] = Lpad6(i)}
    IN  /\ \A j \in 1..Len(events) : \E i \in NewerEvents : events[j] = Lpad6(i)
        /\ Cardinality(returned) = Len(events)
        /\ Len(events) = IF Cardinality(NewerEvents) < events_poll.limit
                         THEN Cardinality(NewerEvents) ELSE events_poll.limit
        /\ \A i \in returned, k \in NewerEvents \ returned : i < k
        /\ \A j, k \in 1..Len(events), a, b \in returned :
               (j < k /\ events[j] = Lpad6(a) /\ events[k] = Lpad6(b)) => a < b

\* C12: a poll with cursor c and limit L returns the lowest-numbered (at most
\* L) events with id > c in ascending order; has_more is false when exactly L
\* newer events exist and true when more than L exist.
C12_HasMoreFalseAtExactlyL ==
    events_poll.response.code = 200 =>
        /\ LowestNewerAscending
        /\ Cardinality(NewerEvents) = events_poll.limit => ~events_poll.response.has_more
        /\ Cardinality(NewerEvents) > events_poll.limit => events_poll.response.has_more

\* C12, amended: the same events are returned, and has_more is true exactly
\* when L events are returned, that is when at least L newer events exist.
C12_HasMoreWhenLimitReturned ==
    events_poll.response.code = 200 =>
        /\ LowestNewerAscending
        /\ events_poll.response.has_more
              <=> Cardinality(NewerEvents) >= events_poll.limit

\* a poll that found exactly as many newer events as its limit, past a cursor
\* that is not the start of the table
C12_Witness ==
    /\ events_poll.response.code = 200
    /\ ParseCursor(events_poll.last_event_id) > 0
    /\ events_poll.limit = 2
    /\ Cardinality(NewerEvents) = 2
    /\ events_poll.response.has_more

-----------------------------------------------------------------------------
(* Properties of the event tree generator *)

\* the event ids of a tree, in document order
TreeIds(tree) == [j \in 1..Len(event_details(tree, 1)) |-> event_details(tree, 1)[j].event_id]

CountE001(tree) ==
    Cardinality({j \in 1..Len(TreeIds(tree)) : TreeIds(tree)[j] = "E001"})

\* C5: the second of two generate_and_save calls in sequence finds the
\* stored tree, returns it as stored, inserts nothing and leaves the store
\* unchanged, and the stored tree has exactly one event with event_id E001.
C5_SecondGenerateAndSave ==
    (gen_log.op = "generate_and_save" /\ gen_log.consecutive = 2)
    =>  /\ gen_log.returned_stored
        /\ ~gen_log.inserted
        /\ ~gen_log.changed
        /\ CountE001(chain.event_tree) = 1

\* C6: in every stored tree the event ids are pairwise distinct and are
\* exactly E001..E0NN, and the last_event_id of the generator that stored
\* the tree is not behind the tree's highest id.
C6_IdsContiguous ==
    chain.present =>
        LET ids == TreeIds(chain.event_tree)
        IN  /\ \A i, j \in 1..Len(ids) : i # j => ids[i] # ids[j]
            /\ {ParseId(ids[j]) : j \in 1..Len(ids)} = 1..Len(ids)
            /\ gen.full_event_tree = chain.event_tree
                   => ParseId(gen.last_event_id) >= Len(ids)

\* the last generator call was generate_next_stage_events
NextStageCalled == gen_log.op \in {"generate_next_stage_events", "failed_stage"}

\* a call that produced no stage returned [] and left the instance's tree and
\* the stored tree as they were
FailedStageLeavesTrees ==
    gen_log.op = "failed_stage" =>
        /\ gen_log.returned_empty
        /\ ~gen_log.memory_changed
        /\ ~gen_log.changed
        /\ ~gen_log.inserted

SameStage(a, b) ==
    /\ a.stage_name = b.stage_name
    /\ Len(a.event_list) = Len(b.event_list)
    /\ \A j \in 1..Len(a.event_list) : a.event_list[j].event_id = b.event_list[j].event_id

\* C14: stages are only appended, never removed: under any interleaving of
\* stage generation, event status updates and the daily exit hook on one
\* agent, every stage of the stored tree is in the tree that replaces it.
C14_StagesNeverRemoved ==
    [][chain.present =>
          \A i \in 1..Len(chain.event_tree) :
              \E j \in 1..Len(chain'.event_tree) :
                  SameStage(chain.event_tree[i], chain'.event_tree[j])]_vars

-----------------------------------------------------------------------------
(* Properties of the session codecs *)

-----------------------------------------------------------------------------
(* Properties of the daily loop engine *)

\* the call of process p has returned to its caller
DailyReturned(p) ==
    daily[p].pc \in {"returned", "done"} /\ daily[p].outcome = "returned"

\* C8: a run_daily_loop call for an existing agent whose input is an exit
\* phrase returns exit_requested = true, whatever the activity and status
\* are, and once the state evaluation of a session has run no LLM request
\* is made for that session, in the rest of the call or in a later call.
C8_ExitStopsLLM ==
    /\ \A p \in Procs :
         (/\ DailyReturned(p)
          /\ daily_store.agent
          /\ Lower(daily[p].user_input) \in ExitPhrases)
         => daily[p].session_data.exit_requested
    /\ ~daily_client.llm_after_hook

\* every time text of the session's schedule is one strptime accepts
AllParse(sd) ==
    \A i \in 1..Len(sd.parsed_schedule) : slot_parses(sd.parsed_schedule[i])

\* C9: a call with no session id and the input hello, for an existing
\* agent whose schedule has well-formed times, and with every store access
\* and LLM request of the call succeeding, returns a new session id, an
\* initialized session, an assistant reply, waiting_for_input = true and
\* the status active.
C9_FreshSessionHello ==
    \A p \in Procs :
        LET c == daily[p]
        IN  (/\ c.pc = "done"
             /\ c.outcome = "returned"
             /\ c.given_id = None
             /\ c.user_input = "hello"
             /\ daily_store.agent
             /\ AllParse(c.session_data)
             /\ c.store_ok
             /\ c.llm_ok)
            =>  /\ c.session_id = DailyId(daily_client.issued)
                /\ c.session_data.initialized
                /\ last_reply(messages(c)) = "reply"
                /\ c.session_data.waiting_for_input
                /\ daily_store.dialogs[c.session_id].status = "active"
                /\ daily_client.via_api =>
                       /\ c.response.session_id = c.session_id
                       /\ c.response.content = "reply"
                       /\ c.response.waiting_for_input
                       /\ c.response.status = "active"

\* C10: a call on a session whose stored conversation_counter is one short
\* of max_conversation_turns (9), and in which the LLM reply is obtained,
\* returns conversation_counter = max_conversation_turns (10) and
\* waiting_for_input = false.
C10_TurnCap ==
    \A p \in Procs :
        LET c == daily[p]
        IN  (/\ DailyReturned(p)
             /\ c.stored_counter = max_conversation_turns - 1
             /\ c.replied)
            =>  /\ c.session_data.conversation_counter = max_conversation_turns
                /\ ~c.session_data.waiting_for_input

C10_Witness ==
    \E p \in Procs :
        /\ daily[p].pc = "done"
        /\ daily[p].outcome = "returned"
        /\ daily[p].stored_counter = max_conversation_turns - 1
        /\ daily[p].user_input = "hello"
        /\ daily[p].replied
        /\ daily[p].session_data.conversation_counter = max_conversation_turns

C18_ExitedSessionUntouched ==
    \A p \in Procs :
        LET c == daily[p]
        IN  (/\ c.pc \in {"returned", "done"}
             /\ c.row_before.present
             /\ load_daily_session(c.row_before).exit_requested)
            =>  /\ c.llm_calls = 0
                /\ daily_store.dialogs[c.session_id].doc = c.row_before.doc

\* C19: when the agent has no stored schedule and the LLM schedule
\* generation fails, initialization falls back to the default schedule and
\* completes (parsed_schedule set, initialized = true) without raising.
C19_DefaultScheduleFallback ==
    \A p \in Procs :
        LET c == daily[p]
        IN  (c.pc \in {"returned", "done"} /\ c.schedule_failed)
            =>  /\ c.outcome = "returned"
                /\ c.session_data.initialized
                /\ c.session_data.parsed_schedule \in DefaultSchedules

\* the same message, saved or not
SameMessage(a, b) == a.role = b.role /\ a.turn = b.turn /\ a.status = b.status

\* pending_messages of the stored session
StoredPending(row) == load_daily_session(row).pending_messages

InSeq(m, msgs) == \E i \in 1..Len(msgs) : SameMessage(m, msgs[i])

\* C20: a message whose insert into the flat log failed stays in
\* pending_messages until an insert of it succeeds: whenever the stored
\* session changes, each message that was pending is still pending or is in
\* agent_messages.
C20_PendingUntilInserted ==
    [][\A s \in DailySessionIds :
          LET before == StoredPending(daily_store.dialogs[s])
          IN  \A i \in 1..Len(before) :
                  \/ InSeq(before[i], StoredPending(daily_store'.dialogs[s]))
                  \/ InSeq(before[i], daily_store'.agent_messages)]_vars

-----------------------------------------------------------------------------
(* Properties of a call as a whole *)

\* C21: every engine call, one run_event_loop or one run_daily_loop
\* invocation, issues at most one LLM request between its store reads and
\* its store writes.
C21_AtMostOneLLMRequest ==
    \A p \in Procs :
        /\ call[p].llm_calls <= 1
        /\ daily[p].llm_calls <= 1

\* C22: a run_event_loop call ends the session only when it sets
\* event_status to success or failure: no call returns is_ended = true with
\* event_status in progress, and no session row has end_time set while its
\* event_status is in progress.
C22_EndedOnlyWhenTerminal ==
    /\ \A p \in Procs :
          (call[p].pc = "done" /\ call[p].result.kind = "ok" /\ call[p].result.is_ended)
          => call[p].result.event_status \in {"success", "failure"}
    /\ \A s \in SessionIds :
          (dialogs[s].present /\ dialogs[s].end_time)
          => dialogs[s].event_status # "in_progress"

\* C23: advancing an already-ended session through the handler, an event
\* session that has ended or a daily session after exit, yields a response
\* that identifies the session as over (ended flag or ended status together
\* with the session_id), distinguishable from the response to a hard failure.
C23_EndedSessionResponse ==
    \A p \in Procs :
        /\ (call[p].pc = "done" /\ call[p].result = ErrorResult)
           =>  LET response == event_response(call[p].result)
               IN  /\ response # event_response(RaisedResult)
                   /\ "session_id" \in response.keys
                   /\ response.is_ended = TRUE
        /\ (/\ daily[p].pc = "done"
            /\ daily_client.via_api
            /\ daily[p].row_before.present
            /\ load_daily_session(daily[p].row_before).exit_requested)
           =>  /\ daily[p].response # ErrorResponse(500)
               /\ daily[p].response.session_id = daily[p].session_id
               /\ daily[p].response.status = "ended"

-----------------------------------------------------------------------------
(* Properties of the stored daily session *)

\* two histories hold the same messages in the same order
SameHistory(a, b) ==
    /\ Len(a) = Len(b)
    /\ \A i \in 1..Len(a) :
          /\ a[i].role = b[i].role
          /\ a[i].role # None => SameMessage(a[i], b[i])

\* C24: the stored conversation history of a daily session is append-only:
\* after every successful exchange the persisted dialog_history equals the
\* history persisted before the call followed by that call's user message
\* and assistant reply.
C24_HistoryAppendOnly ==
    \A p \in Procs :
        LET c == daily[p]
            st == c.session_data.last_status
        IN  (c.pc = "done" /\ c.outcome = "returned" /\ c.replied /\ c.store_ok)
            =>  SameHistory(load_dialog_history(daily_store.dialogs[c.session_id]),
                            load_dialog_history(c.row_before)
                                \o <<user_message(st, c.turn),
                                     assistant_message(st, c.turn)>>)

\* C25: on every daily turn that reaches the LLM call with non-blank,
\* non-exit input, the message list sent to the LLM has the current user
\* message as its last element, also when the insert of that message into
\* the flat log failed and it was queued in pending_messages.
C25_UserMessageSentLast ==
    \A p \in Procs :
        daily[p].pc = "llm" =>
            LET sent == messages(daily[p])
            IN  /\ sent # <<>>
                /\ sent[Len(sent)].role = "user"
                /\ sent[Len(sent)].turn = daily[p].turn

-----------------------------------------------------------------------------
(* Properties of concurrent event-loop calls *)

\* the messages a call has appended to the history it loaded
OwnMessages(c) ==
    <<Message("user", c.prev_event_id)>>
        \o (IF c.agent_reply = LLMError THEN <<>>
            ELSE <<Message("assistant", c.prev_event_id)>>)

\* the history the call loaded
LoadedHistory(c) ==
    SubSeq(c.session_data.dialog_history, 1,
           Len(c.session_data.dialog_history) - Len(OwnMessages(c)))

-----------------------------------------------------------------------------
(* Properties of the choice of the next event *)

\* C27: when an event succeeds, the candidates offered to the selector
\* exclude the event that has just succeeded, so the session's new
\* current_event_id is never the id of the event that has just succeeded.
C27_NextEventIsAnother ==
    \A p \in Procs :
        LET c == call[p]
            offered == event_details(c.session_data.event_tree, 1)
        IN  /\ c.pc = "selected" =>
                   \A i \in 1..Len(offered) : offered[i].event_id # c.prev_event_id
            /\ (c.pc = "done" /\ c.result.kind = "ok" /\ c.event_status = "success")
               =>  /\ c.result.issue_id # c.prev_event_id
                   /\ dialogs[c.sid].current_event_id # c.prev_event_id

\* C28: terminal event status is stable: once an event in the agent's
\* stored tree has status success or failure, no later run_event_loop call
\* changes that event's status back to a non-terminal value.
C28_TerminalStatusStable ==
    [][\A id \in {"E001", "E002", "E003"} :
          (/\ chain.present
           /\ HasEvent(chain.event_tree, id)
           /\ StatusOf(chain.event_tree, id) \in {"success", "failure"})
          =>  /\ chain'.present
              /\ HasEvent(chain'.event_tree, id)
              /\ StatusOf(chain'.event_tree, id) \in {"success", "failure"}]_vars

-----------------------------------------------------------------------------
(* Properties of an ended daily session *)

\* the row is that of an exited session
EndedRow(row) ==
    row.present /\ row.status = "ended" /\ load_daily_session(row).exit_requested

\* C29: an ended daily session is never reactivated: once the session row
\* has status ended with exit_requested = true in its stored state, no later
\* write sets the status back to active or exit_requested back to false,
\* the write of a call that loaded the session before the exit included.
C29_EndedNeverReactivated ==
    [][\A s \in DailySessionIds :
          EndedRow(daily_store.dialogs[s]) => EndedRow(daily_store'.dialogs[s])]_vars

-----------------------------------------------------------------------------
(* Properties of the stored event tree *)

\* C30: generate_and_save never stores a tree with zero stages: if the
\* generation of the initial event fails after its retries, no event-tree
\* document is written for the agent, and no generate_and_save call returns
\* a stored empty tree.
C30_NoEmptyTreeStored ==
    /\ chain.present => chain.event_tree # <<>>
    /\ (gen_log.op = "generate_and_save" /\ gen_log.returned_stored)
           => gen.full_event_tree # <<>>

====
